---- MODULE Spec2Model ----
(***************************************************************************)
(* Model of the abbaas-painter backend: the POST /inpaint handler          *)
(* (app/api/routes.py), the lazily loaded LaMaInpainter singleton          *)
(* (app/services/inpaint_service.py) and the image codec helpers           *)
(* (app/utils/image_utils.py).                                             *)
(*                                                                         *)
(* Specifications over the same handler steps:                             *)
(*   SpecOne      one request, every kind of input string;                 *)
(*   SpecSeq      requests handled one after another (the handler is an    *)
(*                `async def` without an await, so one event loop runs     *)
(*                each request to completion before the next);             *)
(*   SpecThreads  the handler steps interleaved line by line, as when      *)
(*                requests are served by several threads.                  *)
(* SpecPix runs the pixel pipeline of inpaint_image on small arrays.       *)
(***************************************************************************)
EXTENDS Integers, Sequences, FiniteSets, TLC

\* ------------------------------------------------------------------ bounds
\* number of requests of one run (threads, under SpecThreads)
NReq == 2

Req == 1..NReq

\* objects LaMaInpainter.__new__ can allocate: at most one per request
Obj == 1..NReq

\* ------------------------------------------------- request input strings
\* An input string is described by what decode_base64_image looks at.
\*   data_url_image  "data:image/png;base64,<base64 of an image>"
\*   raw_image       "<base64 of an image>"
\*   bad_data_url    starts with "data:" but does not match the pattern
\*   bad_padding     base64 text of a length b64decode rejects
\*   stray_chars     base64 of an image with non-alphabet characters mixed in
\*   stray_garbage   non-alphabet characters only, or mixed into non-image data
\*   not_image       valid base64 of bytes that are no image
InputKinds ==
    {"data_url_image", "raw_image", "bad_data_url", "bad_padding",
     "stray_chars", "stray_garbage", "not_image"}

WellFormedKinds == {"data_url_image", "raw_image"}

\* data_url.startswith("data:")
StartsWithData(k) == k \in {"data_url_image", "bad_data_url"}

\* re.match(r"data:image/[^;]+;base64,(.+)", data_url)
MatchesDataUrl(k) == k = "data_url_image"

\* the payload uses only the base64 alphabet and is correctly padded
IsValidBase64(k) == k \in {"data_url_image", "raw_image", "not_image"}

\* base64.b64decode(base64_data) with the default validate=False: characters
\* outside the alphabet are discarded, and only a wrong length/padding of
\* what remains raises binascii.Error
B64DecodeRaises(k) == k = "bad_padding"

\* Image.open recognises the decoded bytes
BytesAreImage(k) == k \in {"data_url_image", "raw_image", "stray_chars"}

\* ------------------------------------------------------ exception classes
ExcClasses ==
    {"ValueError", "binascii.Error", "LocalEntryNotFoundError",
     "UnidentifiedImageError", "OSError", "RuntimeError", "TypeError",
     "AttributeError"}

\* `except ValueError` catches ValueError and its subclasses: binascii.Error
\* (base64) and huggingface_hub's LocalEntryNotFoundError are subclasses
IsValueError(c) == c \in {"ValueError", "binascii.Error", "LocalEntryNotFoundError"}

\* routes.py: except ValueError -> 400, except Exception -> 500
StatusFor(c) == IF IsValueError(c) THEN 400 ELSE 500

DetailFor(c) == IF IsValueError(c) THEN "Invalid image data" ELSE "Inpainting failed"

\* decode_base64_image: "ok" or the class of the exception it raises
decode_base64_image(k) ==
    IF StartsWithData(k) /\ ~MatchesDataUrl(k) THEN "ValueError"
    ELSE IF B64DecodeRaises(k) THEN "binascii.Error"
    ELSE IF ~BytesAreImage(k) THEN "UnidentifiedImageError"
    ELSE "ok"

\* what a failing library call of the pipeline can raise
StageExc == {"ValueError", "RuntimeError"}

\* what a failing hf_hub_download can raise: an HTTP/OS error, or (no network
\* and nothing in the cache) LocalEntryNotFoundError
FetchExc == {"OSError", "LocalEntryNotFoundError"}

\* what a failing torch.jit.load can raise
LoadExc == {"RuntimeError", "ValueError"}


\* ------------------------------------------------------------------ state
VARIABLES
    pc,               \* per request: the line of the handler it is at
    img_in,           \* request.image
    mask_in,          \* request.mask
    self_obj,         \* the object LaMaInpainter() is constructing (__new__'s result)
    inp,              \* inpaint_image's local `inpainter`
    exc,              \* class of the exception that ended the request
    status,           \* HTTP status of the response, 0 while there is none
    detail,           \* prefix of HTTPException.detail
    failedAt,         \* the line the exception was raised at
    used,             \* the handle self.model(...) was called on
    usedEval,         \* whether that handle's eval() had returned by then
    myfetch,          \* hf_hub_download calls made by this request
    trace,            \* the pipeline stages the request has entered
    cls_instance,     \* LaMaInpainter._instance (0 is None)
    g_inpainter,      \* the module global _inpainter (0 is None)
    obj_initialized,  \* per object: the attribute _initialized
    obj_model,        \* per object: the attribute model (-1 no attribute, 0 None)
    nextObj,          \* objects allocated so far
    fetches,          \* hf_hub_download calls so far
    loads,            \* torch.jit.load calls that returned a handle so far
    evalDone          \* handles whose eval() has returned

reqvars == <<pc, img_in, mask_in, self_obj, inp, exc, status, detail, failedAt,
             used, usedEval, myfetch, trace>>

procvars == <<cls_instance, g_inpainter, obj_initialized, obj_model, nextObj,
              fetches, loads, evalDone>>

outcome == <<exc, status, detail, failedAt>>

\* the data of one run of inpaint_image (SpecPix)
VARIABLES
    ppc,              \* the line inpaint_image / LaMaInpainter.inpaint is at
    image,            \* the decoded PIL image
    mask,             \* the decoded PIL mask
    image_np,         \* inpaint_image's image_np
    mask_np,          \* inpaint_image's mask_np, the mask passed to inpaint
    original_image,   \* inpaint's copy of the image
    mask_dilated,     \* inpaint's mask_dilated
    image_padded,     \* inpaint's image_padded
    mask_padded,      \* inpaint's mask_padded
    orig_size,        \* (orig_h, orig_w) returned by _pad_to_multiple
    image_tensor,     \* the masked image given to the model, in 1/255 units
    result,           \* the model's output, then the clipped and cropped array
    final_result      \* inpaint's return value

pixvars == <<ppc, image, mask, image_np, mask_np, original_image, mask_dilated,
             image_padded, mask_padded, orig_size, image_tensor, result,
             final_result>>

vars == <<reqvars, procvars, pixvars>>

\* the stage of the request pipeline a line belongs to
StageOf(p) ==
    CASE p = "idle" -> "Idle"
      [] p \in {"decode_image", "decode_mask"} -> "Decoding"
      [] p \in {"get_inpainter", "new_check", "new_alloc", "new_setflag",
                "new_return", "init_check", "init_set", "init_model",
                "assign_global", "ret_global", "convert", "load_check",
                "fetch", "jit_load", "eval", "preprocess"} -> "Preprocessing"
      [] p = "forward" -> "Inferring"
      [] p = "postprocess" -> "Postprocessing"
      [] p = "encode" -> "Encoding"
      [] p = "done" -> "Done"
      [] OTHER -> "Failed"

Finished(r) == pc[r] \in {"done", "failed"}

InitProc ==
    /\ cls_instance = 0
    /\ g_inpainter = 0
    /\ obj_initialized = [o \in Obj |-> "noattr"]
    /\ obj_model = [o \in Obj |-> -1]
    /\ nextObj = 0
    /\ fetches = 0
    /\ loads = 0
    /\ evalDone = {}

\* the process after an earlier request has loaded the model
InitProcLoaded ==
    /\ cls_instance = 1
    /\ g_inpainter = 1
    /\ obj_initialized = [o \in Obj |-> IF o = 1 THEN "True" ELSE "noattr"]
    /\ obj_model = [o \in Obj |-> IF o = 1 THEN 1 ELSE -1]
    /\ nextObj = 1
    /\ fetches = 1
    /\ loads = 1
    /\ evalDone = {1}

InitReq ==
    /\ pc = [r \in Req |-> "idle"]
    /\ img_in = [r \in Req |-> "none"]
    /\ mask_in = [r \in Req |-> "none"]
    /\ self_obj = [r \in Req |-> 0]
    /\ inp = [r \in Req |-> 0]
    /\ exc = [r \in Req |-> "none"]
    /\ status = [r \in Req |-> 0]
    /\ detail = [r \in Req |-> "none"]
    /\ failedAt = [r \in Req |-> "none"]
    /\ used = [r \in Req |-> 0]
    /\ usedEval = [r \in Req |-> FALSE]
    /\ myfetch = [r \in Req |-> 0]
    /\ trace = [r \in Req |-> <<>>]

\* ------------------------------------------------------------ control flow
Advance(r, p) ==
    /\ pc' = [pc EXCEPT ![r] = p]
    /\ trace' = [trace EXCEPT ![r] =
                    IF StageOf(p) = StageOf(pc[r]) THEN @ ELSE Append(@, StageOf(p))]

Goto(r, p) == Advance(r, p) /\ UNCHANGED outcome

\* where an exception raised at line p takes the request: both except clauses
\* of the handler raise HTTPException, which ends it
FailureTarget_retry(p) == IF p = "fetch" THEN "fetch" ELSE "decode_image"

FailureTarget(p) == "failed"

Raise(r, c) ==
    /\ Advance(r, FailureTarget(pc[r]))
    /\ exc' = [exc EXCEPT ![r] = c]
    /\ status' = [status EXCEPT ![r] = StatusFor(c)]
    /\ detail' = [detail EXCEPT ![r] = DetailFor(c)]
    /\ failedAt' = [failedAt EXCEPT ![r] = pc[r]]

\* a library call that returns ("ok") or raises one of `classes`
Call(r, classes, next) ==
    \E res \in {"ok"} \cup classes :
        IF res = "ok" THEN Goto(r, next) ELSE Raise(r, res)


\* ------------------------------------------------------- the POST handler
\* a request arrives with its two strings
Receive(r, kinds) ==
    /\ pc[r] = "idle"
    /\ \E i \in kinds, m \in kinds :
        /\ img_in' = [img_in EXCEPT ![r] = i]
        /\ mask_in' = [mask_in EXCEPT ![r] = m]
    /\ Goto(r, "decode_image")
    /\ UNCHANGED <<self_obj, inp, used, usedEval, myfetch, procvars, pixvars>>

\* any strings at all
Start(r) == Receive(r, InputKinds)

\* well-formed strings, handled after every earlier request has been answered
\* (one event loop, no await in the handler)
StartSerial(r) ==
    /\ \A q \in Req : q < r => Finished(q)
    /\ Receive(r, WellFormedKinds)

\* well-formed strings, handled while other requests are in flight
StartConcurrent(r) == Receive(r, WellFormedKinds)

\* routes.py: image = decode_base64_image(request.image)
DecodeImage(r) ==
    /\ pc[r] = "decode_image"
    /\ LET res == decode_base64_image(img_in[r]) IN
        IF res = "ok" THEN Goto(r, "decode_mask") ELSE Raise(r, res)
    /\ UNCHANGED <<img_in, mask_in, self_obj, inp, used, usedEval, myfetch,
                   procvars, pixvars>>

\* routes.py: mask = decode_base64_image(request.mask)
DecodeMask(r) ==
    /\ pc[r] = "decode_mask"
    /\ LET res == decode_base64_image(mask_in[r]) IN
        IF res = "ok" THEN Goto(r, "get_inpainter") ELSE Raise(r, res)
    /\ UNCHANGED <<img_in, mask_in, self_obj, inp, used, usedEval, myfetch,
                   procvars, pixvars>>

\* get_inpainter: if _inpainter is None
GetInpainter(r) ==
    /\ pc[r] = "get_inpainter"
    /\ Goto(r, IF g_inpainter = 0 THEN "new_check" ELSE "ret_global")
    /\ UNCHANGED <<img_in, mask_in, self_obj, inp, used, usedEval, myfetch,
                   procvars, pixvars>>

\* __new__: if cls._instance is None
NewCheck(r) ==
    /\ pc[r] = "new_check"
    /\ Goto(r, IF cls_instance = 0 THEN "new_alloc" ELSE "new_return")
    /\ UNCHANGED <<img_in, mask_in, self_obj, inp, used, usedEval, myfetch,
                   procvars, pixvars>>

\* __new__: cls._instance = super().__new__(cls)
NewAlloc(r) ==
    /\ pc[r] = "new_alloc"
    /\ nextObj < NReq
    /\ nextObj' = nextObj + 1
    /\ cls_instance' = nextObj + 1
    /\ Goto(r, "new_setflag")
    /\ UNCHANGED <<img_in, mask_in, self_obj, inp, used, usedEval, myfetch,
                   g_inpainter, obj_initialized, obj_model, fetches, loads,
                   evalDone, pixvars>>

\* __new__: cls._instance._initialized = False
NewSetFlag(r) ==
    /\ pc[r] = "new_setflag"
    /\ obj_initialized' = [obj_initialized EXCEPT ![cls_instance] = "False"]
    /\ Goto(r, "new_return")
    /\ UNCHANGED <<img_in, mask_in, self_obj, inp, used, usedEval, myfetch,
                   cls_instance, g_inpainter, obj_model, nextObj, fetches, loads,
                   evalDone, pixvars>>

\* __new__: return cls._instance
NewReturn(r) ==
    /\ pc[r] = "new_return"
    /\ self_obj' = [self_obj EXCEPT ![r] = cls_instance]
    /\ Goto(r, "init_check")
    /\ UNCHANGED <<img_in, mask_in, inp, used, usedEval, myfetch, procvars, pixvars>>

\* __init__: if self._initialized: return
InitCheck(r) ==
    /\ pc[r] = "init_check"
    /\ IF obj_initialized[self_obj[r]] = "noattr" THEN Raise(r, "AttributeError")
       ELSE IF obj_initialized[self_obj[r]] = "True" THEN Goto(r, "assign_global")
       ELSE Goto(r, "init_set")
    /\ UNCHANGED <<img_in, mask_in, self_obj, inp, used, usedEval, myfetch,
                   procvars, pixvars>>

\* __init__: self._initialized = True; self.device = ...
InitSet(r) ==
    /\ pc[r] = "init_set"
    /\ obj_initialized' = [obj_initialized EXCEPT ![self_obj[r]] = "True"]
    /\ Goto(r, "init_model")
    /\ UNCHANGED <<img_in, mask_in, self_obj, inp, used, usedEval, myfetch,
                   cls_instance, g_inpainter, obj_model, nextObj, fetches, loads,
                   evalDone, pixvars>>

\* __init__: self.model = None
InitModel(r) ==
    /\ pc[r] = "init_model"
    /\ obj_model' = [obj_model EXCEPT ![self_obj[r]] = 0]
    /\ Goto(r, "assign_global")
    /\ UNCHANGED <<img_in, mask_in, self_obj, inp, used, usedEval, myfetch,
                   cls_instance, g_inpainter, obj_initialized, nextObj, fetches,
                   loads, evalDone, pixvars>>

\* get_inpainter: _inpainter = LaMaInpainter()
AssignGlobal(r) ==
    /\ pc[r] = "assign_global"
    /\ g_inpainter' = self_obj[r]
    /\ Goto(r, "ret_global")
    /\ UNCHANGED <<img_in, mask_in, self_obj, inp, used, usedEval, myfetch,
                   cls_instance, obj_initialized, obj_model, nextObj, fetches,
                   loads, evalDone, pixvars>>

\* get_inpainter: return _inpainter
RetGlobal(r) ==
    /\ pc[r] = "ret_global"
    /\ inp' = [inp EXCEPT ![r] = g_inpainter]
    /\ Goto(r, "convert")
    /\ UNCHANGED <<img_in, mask_in, self_obj, used, usedEval, myfetch, procvars,
                   pixvars>>

\* inpaint_image: image_to_numpy, mask_to_numpy and the resize of the mask
Convert(r) ==
    /\ pc[r] = "convert"
    /\ Call(r, StageExc, "load_check")
    /\ UNCHANGED <<img_in, mask_in, self_obj, inp, used, usedEval, myfetch,
                   procvars, pixvars>>

\* _load_model: if self.model is not None: return
ModelIsLoaded_never(o) == FALSE

ModelIsLoaded(o) == obj_model[o] # 0

LoadCheck(r) ==
    /\ pc[r] = "load_check"
    /\ IF obj_model[inp[r]] = -1 THEN Raise(r, "AttributeError")
       ELSE IF ModelIsLoaded(inp[r]) THEN Goto(r, "preprocess")
       ELSE Goto(r, "fetch")
    /\ UNCHANGED <<img_in, mask_in, self_obj, inp, used, usedEval, myfetch,
                   procvars, pixvars>>

\* _load_model: model_path = hf_hub_download(...)
Fetch(r) ==
    /\ pc[r] = "fetch"
    /\ fetches' = fetches + 1
    /\ myfetch' = [myfetch EXCEPT ![r] = @ + 1]
    /\ Call(r, FetchExc, "jit_load")
    /\ UNCHANGED <<img_in, mask_in, self_obj, inp, used, usedEval, cls_instance,
                   g_inpainter, obj_initialized, obj_model, nextObj, loads,
                   evalDone, pixvars>>

\* _load_model: self.model = torch.jit.load(model_path, ...)
JitLoad(r) ==
    /\ pc[r] = "jit_load"
    /\ \E res \in {"ok"} \cup LoadExc :
        IF res = "ok"
        THEN /\ loads' = loads + 1
             /\ obj_model' = [obj_model EXCEPT ![inp[r]] = loads + 1]
             /\ Goto(r, "eval")
        ELSE /\ Raise(r, res)
             /\ UNCHANGED <<loads, obj_model>>
    /\ UNCHANGED <<img_in, mask_in, self_obj, inp, used, usedEval, myfetch,
                   cls_instance, g_inpainter, obj_initialized, nextObj, fetches,
                   evalDone, pixvars>>

\* _load_model: self.model.eval()
Eval(r) ==
    /\ pc[r] = "eval"
    /\ IF obj_model[inp[r]] <= 0
       THEN Raise(r, "AttributeError") /\ UNCHANGED evalDone
       ELSE Goto(r, "preprocess") /\ evalDone' = evalDone \cup {obj_model[inp[r]]}
    /\ UNCHANGED <<img_in, mask_in, self_obj, inp, used, usedEval, myfetch,
                   cls_instance, g_inpainter, obj_initialized, obj_model, nextObj,
                   fetches, loads, pixvars>>

\* inpaint: copy, binarize, dilate, pad, build and mask the tensors
Preprocess(r) ==
    /\ pc[r] = "preprocess"
    /\ Call(r, StageExc, "forward")
    /\ UNCHANGED <<img_in, mask_in, self_obj, inp, used, usedEval, myfetch,
                   procvars, pixvars>>

\* inpaint: result = self.model(image_tensor, mask_tensor)
Forward(r) ==
    /\ pc[r] = "forward"
    /\ IF obj_model[inp[r]] <= 0
       THEN Raise(r, "TypeError") /\ UNCHANGED <<used, usedEval>>
       ELSE /\ used' = [used EXCEPT ![r] = obj_model[inp[r]]]
            /\ usedEval' = [usedEval EXCEPT ![r] = obj_model[inp[r]] \in evalDone]
            /\ Call(r, StageExc, "postprocess")
    /\ UNCHANGED <<img_in, mask_in, self_obj, inp, myfetch, procvars, pixvars>>

\* inpaint: clip, crop, composite; inpaint_image: numpy_to_image
Postprocess(r) ==
    /\ pc[r] = "postprocess"
    /\ Call(r, StageExc, "encode")
    /\ UNCHANGED <<img_in, mask_in, self_obj, inp, used, usedEval, myfetch,
                   procvars, pixvars>>

\* routes.py: encode_image_to_base64(result); return InpaintResponse(...)
Encode(r) ==
    /\ pc[r] = "encode"
    /\ \E res \in {"ok"} \cup StageExc :
        IF res = "ok"
        THEN /\ Advance(r, "done")
             /\ status' = [status EXCEPT ![r] = 200]
             /\ UNCHANGED <<exc, detail, failedAt>>
        ELSE Raise(r, res)
    /\ UNCHANGED <<img_in, mask_in, self_obj, inp, used, usedEval, myfetch,
                   procvars, pixvars>>

Handle(r) ==
    \/ DecodeImage(r) \/ DecodeMask(r) \/ GetInpainter(r) \/ NewCheck(r)
    \/ NewAlloc(r) \/ NewSetFlag(r) \/ NewReturn(r) \/ InitCheck(r)
    \/ InitSet(r) \/ InitModel(r) \/ AssignGlobal(r) \/ RetGlobal(r)
    \/ Convert(r) \/ LoadCheck(r) \/ Fetch(r) \/ JitLoad(r) \/ Eval(r)
    \/ Preprocess(r) \/ Forward(r) \/ Postprocess(r) \/ Encode(r)

EmptyArr == [h |-> 0, w |-> 0, px |-> <<>>]

InitPixOff ==
    /\ ppc = "off"
    /\ image = EmptyArr
    /\ mask = EmptyArr
    /\ image_np = EmptyArr
    /\ mask_np = EmptyArr
    /\ original_image = EmptyArr
    /\ mask_dilated = EmptyArr
    /\ image_padded = EmptyArr
    /\ mask_padded = EmptyArr
    /\ orig_size = <<0, 0>>
    /\ image_tensor = EmptyArr
    /\ result = EmptyArr
    /\ final_result = EmptyArr

\* one request, any input strings, on a fresh process or after the model
\* has been loaded
InitOne == InitReq /\ (InitProc \/ InitProcLoaded) /\ InitPixOff

NextOne == Start(1) \/ Handle(1)

SpecOne == InitOne /\ [][NextOne]_vars

\* requests served one after another by one event loop
InitSeq == InitReq /\ InitProc /\ InitPixOff

NextSeq == \E r \in Req : StartSerial(r) \/ Handle(r)

SpecSeq == InitSeq /\ [][NextSeq]_vars

\* requests served by threads that interleave between lines
NextThreads == \E r \in Req : StartConcurrent(r) \/ Handle(r)

SpecThreads == InitSeq /\ [][NextThreads]_vars


\* ------------------------------------------------------ the pixel pipeline
\* Arrays are records [h, w, px] with px indexed by <<row, column>> from 0;
\* a colour pixel is <<r, g, b>>, a mask pixel a number. A PIL image is
\* [mode, size, px] with size = <<width, height>>.

\* largest height and width of a decoded image
MaxDim == 9

Pos(h, w) == (0..(h - 1)) \X (0..(w - 1))

\* Image.convert("RGB") of a single-channel image
ToRGB(im) ==
    IF im.mode = "RGB" THEN im
    ELSE [mode |-> "RGB", size |-> im.size,
          px |-> [q \in DOMAIN im.px |-> <<im.px[q], im.px[q], im.px[q]>>]]

\* Image.convert("L") of a colour image: ITU-R 601-2 luma in 16-bit fixed point
Luma(c) == (19595 * c[1] + 38470 * c[2] + 7471 * c[3] + 32768) \div 65536

ToL(im) ==
    IF im.mode = "L" THEN im
    ELSE [mode |-> "L", size |-> im.size,
          px |-> [q \in DOMAIN im.px |-> Luma(im.px[q])]]

\* np.array(pil_image): shape is (height, width)
np_array(im) == [h |-> im.size[2], w |-> im.size[1], px |-> im.px]

image_to_numpy(im) == np_array(ToRGB(im))

mask_to_numpy(im) == np_array(ToL(im))

\* Image.fromarray of a 2-d uint8 array
Image_fromarray(a) == [mode |-> "L", size |-> <<a.w, a.h>>, px |-> a.px]

\* Image.resize(size, Image.NEAREST): the source pixel under the centre of
\* each destination pixel
PIL_resize(im, size) ==
    [mode |-> im.mode, size |-> size,
     px |-> [q \in Pos(size[2], size[1]) |->
                im.px[<<((2 * q[1] + 1) * im.size[2]) \div (2 * size[2]),
                        ((2 * q[2] + 1) * im.size[1]) \div (2 * size[1])>>]]]

\* inpaint_image: the size handed to resize, (image_np.shape[1], image_np.shape[0])
ResizeTarget_swapped(a) == <<a.h, a.w>>

ResizeTarget(a) == <<a.w, a.h>>

\* inpaint_image: resize the mask when the shapes differ
ResizeMask(img, m) ==
    IF <<m.h, m.w>> # <<img.h, img.w>>
    THEN np_array(PIL_resize(Image_fromarray(m), ResizeTarget(img)))
    ELSE m

\* inpaint: (mask > 127).astype(np.uint8) * 255
Binarize(m) ==
    [m EXCEPT !.px = [q \in DOMAIN m.px |-> IF m.px[q] > 127 THEN 255 ELSE 0]]

\* one iteration of binary_dilation with the default cross-shaped structure
\* and border value 0, on an array of 0/255
Dilate1(m) ==
    [m EXCEPT !.px =
        [q \in DOMAIN m.px |->
            IF \E d \in {<<0, 0>>, <<1, 0>>, <<-1, 0>>, <<0, 1>>, <<0, -1>>} :
                  /\ <<q[1] + d[1], q[2] + d[2]>> \in DOMAIN m.px
                  /\ m.px[<<q[1] + d[1], q[2] + d[2]>>] > 0
            THEN 255 ELSE 0]]

RECURSIVE binary_dilation(_, _)
binary_dilation(m, iterations) ==
    IF iterations = 0 THEN m ELSE binary_dilation(Dilate1(m), iterations - 1)

\* inpaint: iterations=2
DilateIterations == 2

\* _pad_to_multiple: (multiple - n % multiple) % multiple
PadAmount_full(n, multiple) == multiple - (n % multiple)

PadAmount(n, multiple) == (multiple - (n % multiple)) % multiple

\* np.pad(mode="reflect"): the source index of index i along an axis of
\* length n (an axis of length 1 repeats its only element)
Reflect(i, n) ==
    IF n = 1 THEN 0
    ELSE LET j == i % (2 * (n - 1)) IN IF j < n THEN j ELSE 2 * (n - 1) - j

\* _pad_to_multiple(img, multiple): <<padded, (h, w)>>
pad_to_multiple(img, multiple) ==
    LET ph == img.h + PadAmount(img.h, multiple)
        pw == img.w + PadAmount(img.w, multiple)
    IN <<[h |-> ph, w |-> pw,
          px |-> [q \in Pos(ph, pw) |->
                     img.px[<<Reflect(q[1], img.h), Reflect(q[2], img.w)>>]]],
         <<img.h, img.w>>>>

\* inpaint: multiple of 8
PadMultiple == 8

\* inpaint: image_tensor * (1 - mask_tensor); tensor values are kept as
\* numerators over 255
MaskedImage(img, m) ==
    [img EXCEPT !.px =
        [q \in DOMAIN img.px |->
            [c \in 1..3 |-> (img.px[q][c] * (255 - m.px[q])) \div 255]]]

\* the opaque model: some output of the input's shape, in 1/255 units,
\* not confined to [0, 1]
ModelSeeds == {1, 2}

ModelOutput(seed, t) ==
    [t EXCEPT !.px =
        [q \in DOMAIN t.px |->
            [c \in 1..3 |-> ((seed * 97 + q[1] * 31 + q[2] * 17 + c * 7) % 360) - 50]]]

\* inpaint: np.clip(result * 255, 0, 255).astype(np.uint8)
Clip(v) == IF v < 0 THEN 0 ELSE IF v > 255 THEN 255 ELSE v

\* inpaint: result[:orig_h, :orig_w, :]
Crop(a, size) ==
    [h |-> size[1], w |-> size[2], px |-> [q \in Pos(size[1], size[2]) |-> a.px[q]]]

\* inpaint: (result * mask_3ch + original_image * (1 - mask_3ch)).astype(np.uint8)
\* with mask_3ch = mask_dilated / 255.0
Blend_swapped(res, orig, m) == (res * (255 - m) + orig * m) \div 255

Blend(res, orig, m) == (res * m + orig * (255 - m)) \div 255

Composite(res, orig, m) ==
    [h |-> orig.h, w |-> orig.w,
     px |-> [q \in Pos(orig.h, orig.w) |->
                [c \in 1..3 |-> Blend(res.px[q][c], orig.px[q][c], m.px[q])]]]

\* the decoded inputs: image content, and the masks tried against it
\* <<mode of the image, mode of the mask>>: the expected pair, and a pair
\* that makes both conversions act
DecodedModes == {<<"RGB", "L">>, <<"L", "RGB">>}

ImagePixel(mode, q) ==
    IF mode = "L" THEN (q[1] * 40 + q[2] * 13 + 100) % 256
    ELSE <<(q[1] * 40 + q[2] * 13 + 100) % 256,
           (q[1] * 7 + q[2] * 90 + 3) % 256,
           (q[1] * 21 + q[2] * 5 + 250) % 256>>

MaskPatterns == {"black", "corner", "threshold", "white", "grey_edge"}

MaskValue(pat, q, h, w) ==
    CASE pat = "black" -> 0
      [] pat = "corner" -> IF q = <<0, 0>> THEN 255 ELSE 0
      [] pat = "threshold" -> IF q = <<h \div 2, w \div 2>> THEN 128 ELSE 127
      [] pat = "white" -> 255
      [] OTHER -> IF q[1] = h - 1 THEN 200 ELSE 100

MaskPixel(mode, pat, q, h, w) ==
    IF mode = "L" THEN MaskValue(pat, q, h, w)
    ELSE <<MaskValue(pat, q, h, w), MaskValue(pat, q, h, w), MaskValue(pat, q, h, w)>>

\* PIL sizes (width, height) of the masks sent with an image of size (w, h)
MaskSizes(w, h) == {<<w, h>>, <<w + 1, h>>, <<h, w>>, <<2 * w, 2 * h>>, <<1, 1>>}

InitPix ==
    /\ InitReq
    /\ InitProc
    /\ ppc = "convert"
    /\ \E h \in 1..MaxDim, w \in 1..MaxDim, modes \in DecodedModes :
        /\ image = [mode |-> modes[1], size |-> <<w, h>>,
                    px |-> [q \in Pos(h, w) |-> ImagePixel(modes[1], q)]]
        /\ \E ms \in MaskSizes(w, h), pat \in MaskPatterns :
              mask = [mode |-> modes[2], size |-> ms,
                      px |-> [q \in Pos(ms[2], ms[1]) |->
                                 MaskPixel(modes[2], pat, q, ms[2], ms[1])]]
    /\ image_np = EmptyArr
    /\ mask_np = EmptyArr
    /\ original_image = EmptyArr
    /\ mask_dilated = EmptyArr
    /\ image_padded = EmptyArr
    /\ mask_padded = EmptyArr
    /\ orig_size = <<0, 0>>
    /\ image_tensor = EmptyArr
    /\ result = EmptyArr
    /\ final_result = EmptyArr

\* inpaint_image: image_np = image_to_numpy(image); mask_np = mask_to_numpy(mask)
PixConvert ==
    /\ ppc = "convert"
    /\ image_np' = image_to_numpy(image)
    /\ mask_np' = mask_to_numpy(mask)
    /\ ppc' = "resize"
    /\ UNCHANGED <<image, mask, original_image, mask_dilated, image_padded,
                   mask_padded, orig_size, image_tensor, result, final_result,
                   reqvars, procvars>>

\* inpaint_image: resize the mask to the image if needed
PixResize ==
    /\ ppc = "resize"
    /\ mask_np' = ResizeMask(image_np, mask_np)
    /\ ppc' = "prepare"
    /\ UNCHANGED <<image, mask, image_np, original_image, mask_dilated,
                   image_padded, mask_padded, orig_size, image_tensor, result,
                   final_result, reqvars, procvars>>

\* inpaint: copy, binarize, dilate, pad, normalise and mask the image
PixPrepare ==
    /\ ppc = "prepare"
    /\ original_image' = image_np
    /\ mask_dilated' = binary_dilation(Binarize(mask_np), DilateIterations)
    /\ image_padded' = pad_to_multiple(image_np, PadMultiple)[1]
    /\ orig_size' = pad_to_multiple(image_np, PadMultiple)[2]
    /\ mask_padded' = pad_to_multiple(mask_dilated', PadMultiple)[1]
    /\ image_tensor' = MaskedImage(image_padded', mask_padded')
    /\ ppc' = "forward"
    /\ UNCHANGED <<image, mask, image_np, mask_np, result, final_result,
                   reqvars, procvars>>

\* inpaint: result = self.model(image_tensor, mask_tensor)
PixForward ==
    /\ ppc = "forward"
    /\ \E seed \in ModelSeeds : result' = ModelOutput(seed, image_tensor)
    /\ ppc' = "post"
    /\ UNCHANGED <<image, mask, image_np, mask_np, original_image, mask_dilated,
                   image_padded, mask_padded, orig_size, image_tensor,
                   final_result, reqvars, procvars>>

\* inpaint: clip, crop to the original size, composite with the original
PixPost ==
    /\ ppc = "post"
    /\ result' = Crop([result EXCEPT !.px =
                          [q \in DOMAIN result.px |->
                              [c \in 1..3 |-> Clip(result.px[q][c])]]],
                      orig_size)
    /\ final_result' = Composite(result', original_image,
                                 Crop(mask_dilated, orig_size))
    /\ ppc' = "returned"
    /\ UNCHANGED <<image, mask, image_np, mask_np, original_image, mask_dilated,
                   image_padded, mask_padded, orig_size, image_tensor,
                   reqvars, procvars>>

NextPix == PixConvert \/ PixResize \/ PixPrepare \/ PixForward \/ PixPost

SpecPix == InitPix /\ [][NextPix]_vars


\* ================================================================= claims

LoadLines == {"fetch", "jit_load"}

LibraryFailures == StageExc \cup FetchExc \cup LoadExc

\* C1 (as claimed): when the requests of a run race for the first load and no
\* library call fails, hf_hub_download runs exactly once in total and every
\* request is answered 200.
C1_OneFetchAllSucceed ==
    ((\A r \in Req : Finished(r)) /\ (\A r \in Req : exc[r] \notin LibraryFailures))
        => (fetches = 1 /\ \A r \in Req : status[r] = 200)

\* the three malformed-input cases of decode_base64_image
CaseBadDataUrl(k) == StartsWithData(k) /\ ~MatchesDataUrl(k)

CaseBadBase64(k) == ~CaseBadDataUrl(k) /\ ~IsValidBase64(k)

CaseNotImage(k) == ~CaseBadDataUrl(k) /\ ~B64DecodeRaises(k) /\ ~BytesAreImage(k)

Malformed(k) == CaseBadDataUrl(k) \/ CaseBadBase64(k) \/ CaseNotImage(k)

\* C2 (as claimed): a request whose image or mask is malformed in any of the
\* three ways is answered 400 with a detail containing "Invalid image data".
C2_MalformedIs400 ==
    \A r \in Req :
        (Finished(r) /\ (Malformed(img_in[r]) \/ Malformed(mask_in[r])))
            => (status[r] = 400 /\ detail[r] = "Invalid image data")

\* C3 (as claimed): a request that fails after both strings were decoded
\* (so not because of malformed input) is answered 500, never 400.
C3_OtherFailureIs500 ==
    \A r \in Req :
        (pc[r] = "failed" /\ failedAt[r] \notin {"decode_image", "decode_mask"})
            => status[r] = 500

LoadCompleted == \E o \in Obj : obj_model[o] > 0 /\ obj_model[o] \in evalDone

SameHandle == \A r \in Req : used[r] # 0 => used[r] = obj_model[g_inpainter]

\* C6: once _load_model has completed (the handle is set and eval() has
\* returned), no later step fetches or loads again or changes any object's
\* model, and every forward pass so far ran on the one handle in place.
C6_LoadIsIdempotent ==
    [][LoadCompleted =>
          /\ fetches' = fetches
          /\ loads' = loads
          /\ obj_model' = obj_model
          /\ g_inpainter' = g_inpainter
          /\ SameHandle']_vars

C6_Witness ==
    /\ LoadCompleted
    /\ pc[1] = "done" /\ myfetch[1] = 1
    /\ pc[2] = "done" /\ myfetch[2] = 0 /\ used[2] = used[1]

\* C7: a request whose hf_hub_download or torch.jit.load raises ends failed
\* having fetched once, with no handle set on any object; the request after
\* it finds the model unloaded and fetches again, fetching at most once too,
\* and when its load returns the handle is set and it goes on to use it.
C7_FailedLoadIsRetriedByNext ==
    [][\A r \in Req :
          /\ myfetch'[r] <= 1
          /\ (pc[r] \in LoadLines /\ pc'[r] # pc[r] /\ exc'[r] # "none")
                => /\ pc'[r] = "failed"
                   /\ status'[r] \in {400, 500}
                   /\ myfetch'[r] = 1
                   /\ \A o \in Obj : obj_model'[o] <= 0
          /\ (r > 1 /\ failedAt[r - 1] \in LoadLines /\ pc[r] = "load_check")
                => pc'[r] \in {"load_check", "fetch"}
          /\ (r > 1 /\ failedAt[r - 1] \in LoadLines /\ pc'[r] = "done")
                => (myfetch'[r] = 1 /\ used'[r] > 0 /\ used'[r] = obj_model'[inp[r]])
      ]_vars

C7_Witness ==
    /\ failedAt[1] = "fetch" /\ status[1] # 200 /\ myfetch[1] = 1
    /\ pc[2] = "done" /\ myfetch[2] = 1 /\ fetches = 2

Stages == <<"Decoding", "Preprocessing", "Inferring", "Postprocessing", "Encoding">>

InOrder(t, n) == n <= Len(Stages) /\ \A i \in 1..n : t[i] = Stages[i]

TraceOK(r) ==
    LET t == trace[r]
        n == Len(t)
    IN CASE pc[r] = "idle" -> n = 0
         [] pc[r] = "done" ->
                n = Len(Stages) + 1 /\ t[n] = "Done" /\ InOrder(t, n - 1)
                /\ status[r] = 200
         [] pc[r] = "failed" ->
                n >= 2 /\ t[n] = "Failed" /\ InOrder(t, n - 1)
                /\ status[r] \in {400, 500}
                /\ t[n - 1] = StageOf(failedAt[r])
         [] OTHER -> n >= 1 /\ InOrder(t, n) /\ t[n] = StageOf(pc[r]) /\ status[r] = 0

\* C8: the stages a request has entered are a prefix of Decoding,
\* Preprocessing, Inferring, Postprocessing, Encoding, closed by Done only
\* after all five and by Failed after any of them; a request that is neither
\* idle nor ended can always take its next step, and an ended one takes none.
C8_StagesInOrder ==
    \A r \in Req :
        /\ TraceOK(r)
        /\ (pc[r] \notin {"idle", "done", "failed"}) => ENABLED Handle(r)
        /\ Finished(r) => ~ENABLED Handle(r)

C8_Witness ==
    /\ pc[1] = "failed" /\ trace[1] = <<"Decoding", "Preprocessing", "Inferring", "Failed">>

\* C10 (as claimed): whenever a request runs the forward pass, the handle it
\* runs it on is set and its eval() has returned, and all requests run it on
\* the same handle.
C10_ForwardOnCompletedHandle ==
    /\ \A r \in Req : used[r] # 0 => usedEval[r]
    /\ \A r, q \in Req : (used[r] # 0 /\ used[q] # 0) => used[r] = used[q]
    /\ \A r \in Req : ~(failedAt[r] = "forward" /\ exc[r] = "TypeError")

PaddedTo8(a, padded) ==
    /\ padded.h % 8 = 0 /\ padded.h >= a.h /\ padded.h - a.h <= 7
    /\ padded.w % 8 = 0 /\ padded.w >= a.w /\ padded.w - a.w <= 7
    /\ (a.h % 8 = 0 => padded.h = a.h)
    /\ (a.w % 8 = 0 => padded.w = a.w)
    /\ DOMAIN padded.px = Pos(padded.h, padded.w)

\* C5: _pad_to_multiple(img, 8) returns an array whose height and width are
\* multiples of 8, at least and less than 8 above the input's (so equal when
\* the input's is a multiple of 8), together with the input's (h, w).
C5_PadToMultipleOf8 ==
    ppc \in {"forward", "post", "returned"} =>
        /\ PaddedTo8(image_np, image_padded)
        /\ PaddedTo8(mask_dilated, mask_padded)
        /\ orig_size = <<image_np.h, image_np.w>>

C5_Witness ==
    /\ ppc = "forward"
    /\ image_np.h = 8 /\ image_padded.h = 8
    /\ image_np.w = 9 /\ image_padded.w = 16

\* C4: in the array inpaint returns, every pixel where the dilated mask
\* (cropped to the original size) is 0 equals the input image's pixel there
\* in all three channels.
C4_UnmaskedPixelsPreserved ==
    ppc = "returned" =>
        /\ final_result.h = image_np.h /\ final_result.w = image_np.w
        /\ \A q \in Pos(image_np.h, image_np.w) :
              Crop(mask_dilated, orig_size).px[q] = 0 =>
                  \A c \in 1..3 : final_result.px[q][c] = image_np.px[q][c]

C4_Witness ==
    /\ ppc = "returned"
    /\ \E q \in Pos(image_np.h, image_np.w) :
          /\ mask_dilated.px[q] = 0
          /\ \A c \in 1..3 : result.px[q][c] # image_np.px[q][c]
          /\ final_result.px[q] = image_np.px[q]
    /\ \E q \in Pos(image_np.h, image_np.w) :
          mask_dilated.px[q] = 255 /\ final_result.px[q] = result.px[q]

\* C9: the mask inpaint_image passes to inpaint has the image's height and
\* width, whatever the decoded sizes; a mask of the image's size is passed
\* as mask_to_numpy returned it.
C9_MaskMatchesImage ==
    ppc \in {"prepare", "forward", "post", "returned"} =>
        /\ mask_np.h = image_np.h /\ mask_np.w = image_np.w
        /\ DOMAIN mask_np.px = Pos(image_np.h, image_np.w)
        /\ (mask.size = image.size => mask_np = mask_to_numpy(mask))

C9_Witness ==
    /\ ppc = "prepare"
    /\ mask.size # image.size
    /\ image.size[1] # image.size[2]
    /\ <<mask_np.h, mask_np.w>> = <<image.size[2], image.size[1]>>

====
